---- MODULE Spec2Model ----
(***************************************************************************)
(* The run orchestrator of src/main.py: main() as a state machine.         *)
(*                                                                         *)
(* An invocation of main() is a run r.  Its state is its parsed arguments, *)
(* its position in main() (pc), its local variables and the way it ended   *)
(* (status, exc).  Runs share the file system (dirs, files) and the wall   *)
(* clock.  Every statement of main() that performs I/O, constructs a       *)
(* collaborator or awaits one is an action; an awaited call is two         *)
(* actions, the call and its return, because the coroutine is suspended    *)
(* in between.  A with-open-dump block is two actions, open(.., 'w')       *)
(* (which creates or truncates the file) and json.dump + close.            *)
(*                                                                         *)
(* Collaborators (models, ModelTester, process_raw_responses, Evaluator)   *)
(* and the operating system are black boxes: each call either returns or   *)
(* raises an exception of some class.                                      *)
(***************************************************************************)
EXTENDS Naturals, Sequences, FiniteSets, TLC

\* ------------------------------------------------------------------ bounds
\* The wall clock runs over the seconds 1..MaxTime.
MaxTime == 2

\* ------------------------------------------------------------- value sets
Runs == {"A", "B"}

None == "None"

\* A path-valued or string-valued option is absent (None), the empty string
\* or a proper value; `not x` is true of the first two.
Falsy(x) == x \in {None, ""}

\* The attributes of the namespace parse_args() returns: one per
\* add_argument call.
ArgAttrs ==
    {"eval_only", "processed_responses", "model_type", "dataset",
     "openai_model_name", "gemini_model_id", "openai_api_key",
     "semantic_judge_model", "skip_evaluation"}

HasAttr(a) == a \in ArgAttrs

\* The command lines argparse accepts (choices restricts --model-type).
Configs ==
    [eval_only           : BOOLEAN,
     processed_responses : {None, "", "p.json"},
     model_type          : {None, "gemini", "openai"},
     dataset             : {None, "", "d.json"},
     openai_api_key      : {None, "", "sk"},
     skip_evaluation     : BOOLEAN]

NoConfig ==
    [eval_only |-> FALSE, processed_responses |-> None, model_type |-> None,
     dataset |-> None, openai_api_key |-> None, skip_evaluation |-> FALSE]

\* Exception classes a collaborator or the operating system may raise.
\* json.JSONDecodeError is a ValueError.
FailClasses == {"ValueError", "OtherError"}
Outcomes == {"ok"} \cup FailClasses

\* The stages of the pipeline.
Stages == {"generation", "normalization", "snapshot", "evaluation"}

\* Files of a run directory.
RawFile == "raw_responses.json"
ProcessedFile == "processed_responses.json"
ParametersFile == "test_parameters.json"
EvaluatorFile == "evaluation_results"
FileNames == {RawFile, ProcessedFile, ParametersFile, EvaluatorFile}

Dirs == 1..MaxTime

\* A file is absent, partial (opened for writing, content not yet dumped) or
\* complete.  writer is the run that wrote it, data the run whose generation
\* its content stems from.
AbsentFile == [state |-> "absent", writer |-> "-", data |-> "-"]
PartialFile(r) == [state |-> "partial", writer |-> r, data |-> "-"]
CompleteFile(r, d) == [state |-> "complete", writer |-> r, data |-> d]

\* os.path.join(results_dir, name)
RunPath(d, name) == <<d, name>>

VARIABLES
    clock,              \* the current second
    environ,            \* whether OPENAI_API_KEY is set in the environment
    dirs,               \* the run directories that exist
    files,              \* files[d][name]: the file name of run directory d
    args,               \* args[r]: the parsed command line
    pc,                 \* pc[r]: position in main()
    status,             \* "absent", "running", "returned", "usage_error", "raised"
    exc,                \* the class of the exception that escaped main()
    failure,            \* where and with what class the run's failure arose
    log,                \* logger.error messages
    trace,              \* the I/O and collaborator events of the run, in order
    active,             \* the stages in progress
    timestamp,          \* the run directory's second (0: not yet derived)
    raw_results,        \* the value run_tests returned ("-": none)
    processed_results,  \* the value process_raw_responses returned ("-": none)
    scored,             \* the data the evaluator has scored ("-": none)
    handed              \* the input paths handed to collaborators

vars == <<clock, environ, dirs, files, args, pc, status, exc, failure, log,
          trace, active, timestamp, raw_results, processed_results, scored,
          handed>>

disk == <<dirs, files>>
locals == <<timestamp, raw_results, processed_results, scored>>
outcome == <<status, exc, failure>>

\* ---------------------------------------------------------------- helpers
Event(r, e) == trace' = [trace EXCEPT ![r] = Append(@, e)]

Has(r, e) == \E i \in 1..Len(trace[r]) : trace[r][i] = e

Count(r, e) == Cardinality({i \in 1..Len(trace[r]) : trace[r][i] = e})

Pos(r, e) == IF Has(r, e)
             THEN CHOOSE i \in 1..Len(trace[r]) :
                      /\ trace[r][i] = e
                      /\ \A j \in 1..(i - 1) : trace[r][j] # e
             ELSE 0

\* e1 has happened before the first e2, if e2 has happened at all.
Precedes(r, e1, e2) == Has(r, e2) => (Has(r, e1) /\ Pos(r, e1) < Pos(r, e2))

NoFailure == [at |-> "-", class |-> "-"]

\* main() goes on at l, with the stages in act in progress.
Continue(r, l, act) ==
    /\ pc' = [pc EXCEPT ![r] = l]
    /\ active' = [active EXCEPT ![r] = act]
    /\ UNCHANGED <<status, exc, failure, log>>

\* main() returns (return statement or end of body).
Return(r) ==
    /\ pc' = [pc EXCEPT ![r] = "done"]
    /\ status' = [status EXCEPT ![r] = "returned"]
    /\ active' = [active EXCEPT ![r] = {}]
    /\ UNCHANGED <<exc, failure, log>>

\* logger.error(msg) followed by return, outside any exception.
LogAndReturn(r, msg) ==
    /\ pc' = [pc EXCEPT ![r] = "done"]
    /\ status' = [status EXCEPT ![r] = "returned"]
    /\ active' = [active EXCEPT ![r] = {}]
    /\ log' = [log EXCEPT ![r] = @ \cup {msg}]
    /\ UNCHANGED <<exc, failure>>

\* An exception of class c, raised at step at, leaves main() and
\* asyncio.run(): no handler encloses the step.
Propagate(r, c, at) ==
    /\ pc' = [pc EXCEPT ![r] = "done"]
    /\ status' = [status EXCEPT ![r] = "raised"]
    /\ exc' = [exc EXCEPT ![r] = c]
    /\ failure' = [failure EXCEPT ![r] = [at |-> at, class |-> c]]
    /\ active' = [active EXCEPT ![r] = {}]
    /\ UNCHANGED log

\* Mutant of Catches: the handler is except Exception.
CatchesAll(c) == TRUE

\* Mutant of Catches: the try block has no handler for ValueError.
CatchesNothing(c) == FALSE

\* Lines 186-188: the handler of the try block around the evaluation.
\* except ValueError logs and returns; any other class propagates.
Catches(c) == c = "ValueError"

RaiseInTry(r, c, at) ==
    IF Catches(c)
    THEN /\ pc' = [pc EXCEPT ![r] = "done"]
         /\ status' = [status EXCEPT ![r] = "returned"]
         /\ failure' = [failure EXCEPT ![r] = [at |-> at, class |-> c]]
         /\ log' = [log EXCEPT ![r] = @ \cup {"Evaluation failed"}]
         /\ active' = [active EXCEPT ![r] = {}]
         /\ UNCHANGED exc
    ELSE Propagate(r, c, at)

ResultsDir(r) == timestamp[r]

SetFile(d, name, f) == files' = [files EXCEPT ![d][name] = f]

File(r, name) == files[ResultsDir(r)][name]

\* What json.dump and close leave in the file name of r's run directory.
\* When the file is still as r's open() left it, it is the complete content.
\* When another run has opened or written the same path meanwhile, both
\* write from offset 0 and the result is r's content or unparseable.
Dumped(r, name, d) ==
    IF File(r, name) = PartialFile(r)
    THEN {CompleteFile(r, d)}
    ELSE {CompleteFile(r, d), PartialFile(r)}

\* ------------------------------------------------------------------- Init
InitCommon ==
    /\ clock = 1
    /\ environ \in [openai_api_key : BOOLEAN]
    /\ dirs = {}
    /\ files = [d \in Dirs |-> [n \in FileNames |-> AbsentFile]]
    /\ exc = [r \in Runs |-> "-"]
    /\ failure = [r \in Runs |-> NoFailure]
    /\ log = [r \in Runs |-> {}]
    /\ trace = [r \in Runs |-> <<>>]
    /\ active = [r \in Runs |-> {}]
    /\ timestamp = [r \in Runs |-> 0]
    /\ raw_results = [r \in Runs |-> "-"]
    /\ processed_results = [r \in Runs |-> "-"]
    /\ scored = [r \in Runs |-> "-"]
    /\ handed = [r \in Runs |-> {}]

\* One invocation, A, with any command line argparse accepts.
Init ==
    /\ InitCommon
    /\ \E c \in Configs : args = [r \in Runs |-> IF r = "A" THEN c ELSE NoConfig]
    /\ pc = [r \in Runs |-> IF r = "A" THEN "validate" ELSE "done"]
    /\ status = [r \in Runs |-> IF r = "A" THEN "running" ELSE "absent"]

\* Two invocations, A and B, started independently of each other: each a
\* full-mode run (with or without --skip-evaluation) or an eval-only run.
ConcConfigs ==
    {c \in Configs :
        /\ c.openai_api_key = None
        /\ \/ /\ ~c.eval_only
              /\ c.model_type = "gemini"
              /\ c.dataset = "d.json"
              /\ c.processed_responses = None
           \/ /\ c.eval_only
              /\ c.processed_responses = "p.json"
              /\ c.model_type = None
              /\ c.dataset = None
              /\ ~c.skip_evaluation}

InitConc ==
    /\ InitCommon
    /\ args \in [Runs -> ConcConfigs]
    /\ pc = [r \in Runs |-> "validate"]
    /\ status = [r \in Runs |-> "running"]

\* ---------------------------------------------------------------- actions
\* The wall clock advances.
Tick ==
    /\ clock < MaxTime
    /\ clock' = clock + 1
    /\ UNCHANGED <<environ, disk, args, pc, outcome, log, trace, active,
                   locals, handed>>

\* Mutant of ValidArgs: the check of --dataset is missing.
ValidArgsLax(a) ==
    IF ~a.eval_only
    THEN ~Falsy(a.model_type)
    ELSE ~Falsy(a.processed_responses)

\* Lines 85-92: the cross-field checks.
ValidArgs(a) ==
    IF ~a.eval_only
    THEN ~Falsy(a.model_type) /\ ~Falsy(a.dataset)
    ELSE ~Falsy(a.processed_responses)

\* Lines 85-92: parser.error() prints usage and raises SystemExit(2).
ValidateArgs(r) ==
    /\ pc[r] = "validate"
    /\ IF ValidArgs(args[r])
       THEN Continue(r, "makedirs", active[r])
       ELSE /\ pc' = [pc EXCEPT ![r] = "done"]
            /\ status' = [status EXCEPT ![r] = "usage_error"]
            /\ exc' = [exc EXCEPT ![r] = "SystemExit"]
            /\ failure' = [failure EXCEPT ![r] =
                              [at |-> "validate", class |-> "SystemExit"]]
            /\ UNCHANGED <<active, log>>
    /\ UNCHANGED <<clock, environ, disk, args, trace, locals, handed>>

\* Mutant of MakeDirs: os.makedirs without exist_ok=True raises
\* FileExistsError on an existing directory.
MakeDirsNoExistOk(r) ==
    /\ pc[r] = "makedirs"
    /\ timestamp' = [timestamp EXCEPT ![r] = clock]
    /\ \E o \in {"ok", "OtherError"} :
        IF o = "ok" /\ clock \notin dirs
        THEN /\ dirs' = dirs \cup {clock}
             /\ Event(r, "makedirs")
             /\ Continue(r, "dispatch", active[r])
        ELSE /\ Propagate(r, "OtherError", "makedirs")
             /\ UNCHANGED <<dirs, trace>>
    /\ UNCHANGED <<clock, environ, files, args, raw_results,
                   processed_results, scored, handed>>

\* Mutant of MakeDirs: an error of os.makedirs is ignored and main() goes on.
MakeDirsIgnoreError(r) ==
    /\ pc[r] = "makedirs"
    /\ timestamp' = [timestamp EXCEPT ![r] = clock]
    /\ \E o \in {"ok", "OtherError"} :
        IF o = "ok"
        THEN /\ dirs' = dirs \cup {clock}
             /\ Event(r, "makedirs")
             /\ Continue(r, "dispatch", active[r])
        ELSE /\ Continue(r, "dispatch", active[r])
             /\ UNCHANGED <<dirs, trace>>
    /\ UNCHANGED <<clock, environ, files, args, raw_results,
                   processed_results, scored, handed>>

\* Lines 94-96: the directory is named by the current second and created;
\* exist_ok=True makes an existing directory a success.
MakeDirs(r) ==
    /\ pc[r] = "makedirs"
    /\ timestamp' = [timestamp EXCEPT ![r] = clock]
    /\ \E o \in {"ok", "OtherError"} :
        IF o = "ok"
        THEN /\ dirs' = dirs \cup {clock}
             /\ Event(r, "makedirs")
             /\ Continue(r, "dispatch", active[r])
        ELSE /\ Propagate(r, o, "makedirs")
             /\ UNCHANGED <<dirs, trace>>
    /\ UNCHANGED <<clock, environ, files, args, raw_results,
                   processed_results, scored, handed>>

\* Lines 99-108, the eval-only branch: the keyword arguments of Evaluator(..)
\* are evaluated before the constructor is called, and args has neither a
\* mode nor a run_both_tool_modes attribute, so the attribute lookup raises
\* AttributeError.  Lines 110-113 are reached only if both lookups succeed.
EvalOnlyEvaluator(r) ==
    /\ pc[r] = "dispatch"
    /\ args[r].eval_only
    /\ IF HasAttr("mode") /\ HasAttr("run_both_tool_modes")
       THEN /\ Event(r, "evaluator")
            /\ Continue(r, "eval_only_evaluate", {"evaluation"})
       ELSE /\ Propagate(r, "AttributeError", "evaluator")
            /\ UNCHANGED trace
    /\ UNCHANGED <<clock, environ, disk, args, locals, handed>>

\* Mutant of LoadDataset: the eval-only branch does not return, so the
\* dataset is loaded in either mode.
LoadDatasetAnyMode(r) ==
    /\ pc[r] = "dispatch"
    /\ \E o \in Outcomes :
        IF o = "ok"
        THEN /\ trace' = [trace EXCEPT ![r] = @ \o <<"open_dataset", "dataset_loaded">>]
             /\ Continue(r, "model", active[r])
        ELSE /\ Event(r, "open_dataset")
             /\ Propagate(r, o, "load_dataset")
    /\ UNCHANGED <<clock, environ, disk, args, locals, handed>>

\* Lines 115-118 and 46-48: open() and json.load() of the dataset path.
LoadDataset(r) ==
    /\ pc[r] = "dispatch"
    /\ ~args[r].eval_only
    /\ \E o \in Outcomes :
        IF o = "ok"
        THEN /\ trace' = [trace EXCEPT ![r] = @ \o <<"open_dataset", "dataset_loaded">>]
             /\ Continue(r, "model", active[r])
        ELSE /\ Event(r, "open_dataset")
             /\ Propagate(r, o, "load_dataset")
    /\ UNCHANGED <<clock, environ, disk, args, locals, handed>>

\* Mutant of InitModel: the credential check does not return, and the
\* client is constructed without a key.
InitModelNoKeyCheck(r) ==
    /\ pc[r] = "model"
    /\ \E o \in Outcomes :
        IF o = "ok"
        THEN /\ Event(r, "model_client")
             /\ IF args[r].model_type = "openai" /\ Falsy(args[r].openai_api_key)
                THEN /\ pc' = [pc EXCEPT ![r] = "tester"]
                     /\ active' = [active EXCEPT ![r] = {"generation"}]
                     /\ log' = [log EXCEPT ![r] = @ \cup {"OpenAI API key is required"}]
                     /\ UNCHANGED <<status, exc, failure>>
                ELSE Continue(r, "tester", {"generation"})
        ELSE /\ Propagate(r, o, "model_client")
             /\ UNCHANGED trace
    /\ UNCHANGED <<clock, environ, disk, args, locals, handed>>

\* Lines 120-138: the credential check and the model client.
InitModel(r) ==
    /\ pc[r] = "model"
    /\ IF args[r].model_type = "openai" /\ Falsy(args[r].openai_api_key)
       THEN /\ LogAndReturn(r, "OpenAI API key is required")
            /\ UNCHANGED trace
       ELSE IF args[r].model_type \in {"openai", "gemini"}
       THEN \E o \in Outcomes :
               IF o = "ok"
               THEN /\ Event(r, "model_client")
                    /\ Continue(r, "tester", {"generation"})
               ELSE /\ Propagate(r, o, "model_client")
                    /\ UNCHANGED trace
       ELSE /\ LogAndReturn(r, "Invalid model type")
            /\ UNCHANGED trace
    /\ UNCHANGED <<clock, environ, disk, args, locals, handed>>

\* Lines 140-144: the test-driving collaborator.
InitTester(r) ==
    /\ pc[r] = "tester"
    /\ \E o \in Outcomes :
        IF o = "ok"
        THEN /\ Event(r, "tester")
             /\ Continue(r, "run_tests", active[r])
        ELSE /\ Propagate(r, o, "tester")
             /\ UNCHANGED trace
    /\ UNCHANGED <<clock, environ, disk, args, locals, handed>>

\* Line 148: tester.run_tests() is called and main() is suspended.
CallRunTests(r) ==
    /\ pc[r] = "run_tests"
    /\ Event(r, "run_tests")
    /\ Continue(r, "await_run_tests", active[r])
    /\ UNCHANGED <<clock, environ, disk, args, locals, handed>>

\* Mutant of RunTestsReturns: a failed run_tests is called once more.
RunTestsReturnsRetry(r) ==
    /\ pc[r] = "await_run_tests"
    /\ \E o \in Outcomes :
        IF o = "ok"
        THEN /\ raw_results' = [raw_results EXCEPT ![r] = r]
             /\ Event(r, "run_tests_done")
             /\ Continue(r, "open_raw", active[r])
        ELSE IF Count(r, "run_tests") < 2
        THEN /\ Continue(r, "run_tests", active[r])
             /\ UNCHANGED <<raw_results, trace>>
        ELSE /\ Propagate(r, o, "run_tests")
             /\ UNCHANGED <<raw_results, trace>>
    /\ UNCHANGED <<clock, environ, disk, args, timestamp, processed_results,
                   scored, handed>>

\* Mutant of RunTestsReturns: a failure of run_tests is swallowed and main()
\* goes on with the empty raw_results of line 147.
RunTestsReturnsSwallow(r) ==
    /\ pc[r] = "await_run_tests"
    /\ \E o \in Outcomes :
        IF o = "ok"
        THEN /\ raw_results' = [raw_results EXCEPT ![r] = r]
             /\ Event(r, "run_tests_done")
             /\ Continue(r, "open_raw", active[r])
        ELSE /\ pc' = [pc EXCEPT ![r] = "open_raw"]
             /\ failure' = [failure EXCEPT ![r] = [at |-> "run_tests", class |-> o]]
             /\ UNCHANGED <<raw_results, trace, status, exc, log, active>>
    /\ UNCHANGED <<clock, environ, disk, args, timestamp, processed_results,
                   scored, handed>>

\* Line 148: the awaited call returns the raw results or raises.
RunTestsReturns(r) ==
    /\ pc[r] = "await_run_tests"
    /\ \E o \in Outcomes :
        IF o = "ok"
        THEN /\ raw_results' = [raw_results EXCEPT ![r] = r]
             /\ Event(r, "run_tests_done")
             /\ Continue(r, "open_raw", active[r])
        ELSE /\ Propagate(r, o, "run_tests")
             /\ UNCHANGED <<raw_results, trace>>
    /\ UNCHANGED <<clock, environ, disk, args, timestamp, processed_results,
                   scored, handed>>

\* Lines 150-151: open(raw_results_file, 'w') creates or truncates the file.
OpenRaw(r) ==
    /\ pc[r] = "open_raw"
    /\ \E o \in {"ok", "OtherError"} :
        IF o = "ok"
        THEN /\ SetFile(ResultsDir(r), RawFile, PartialFile(r))
             /\ Event(r, "open_raw")
             /\ Continue(r, "dump_raw", active[r])
        ELSE /\ Propagate(r, o, "open_raw")
             /\ UNCHANGED <<files, trace>>
    /\ UNCHANGED <<clock, environ, dirs, args, locals, handed>>

\* Line 152: json.dump of {'test_results': raw_results}, then the file is
\* closed.  A failed dump leaves what open() and the dump made of the file.
DumpRaw(r) ==
    /\ pc[r] = "dump_raw"
    /\ \E o \in Outcomes :
        IF o = "ok"
        THEN /\ \E f \in Dumped(r, RawFile, raw_results[r]) :
                    SetFile(ResultsDir(r), RawFile, f)
             /\ Event(r, "raw_written")
             /\ Continue(r, "normalize", active[r] \ {"generation"})
        ELSE /\ Propagate(r, o, "dump_raw")
             /\ UNCHANGED <<files, trace>>
    /\ UNCHANGED <<clock, environ, dirs, args, locals, handed>>

\* Mutant of CallNormalizer: the normalizer is also called before the raw
\* file is written (steps 1 and 2 of main() overlap).
CallNormalizerEarly(r) ==
    /\ pc[r] \in {"open_raw", "normalize"}
    /\ Event(r, "normalize")
    /\ handed' = [handed EXCEPT ![r] = @ \cup {RunPath(ResultsDir(r), RawFile)}]
    /\ Continue(r, "await_normalize", active[r] \cup {"normalization"})
    /\ UNCHANGED <<clock, environ, disk, args, locals>>

\* Line 155: process_raw_responses(raw_results_file, model) is called with
\* the path of the raw file and main() is suspended.
CallNormalizer(r) ==
    /\ pc[r] = "normalize"
    /\ Event(r, "normalize")
    /\ handed' = [handed EXCEPT ![r] = @ \cup {RunPath(ResultsDir(r), RawFile)}]
    /\ Continue(r, "await_normalize", active[r] \cup {"normalization"})
    /\ UNCHANGED <<clock, environ, disk, args, locals>>

\* What the normalizer makes of the file it was handed: the standardized
\* form of the data the file holds.  A file that is not complete JSON
\* cannot be parsed.
Normalized(f) == f.data
Parseable(f) == f.state = "complete"

\* Mutant of NormalizerReturns: the path of the raw file is joined from a
\* directory name derived anew from the clock, not from results_dir.
NormalizerReturnsLatestDir(r) ==
    /\ pc[r] = "await_normalize"
    /\ \E o \in Outcomes :
        IF o = "ok"
        THEN /\ Parseable(files[clock][RawFile])
             /\ processed_results' =
                    [processed_results EXCEPT ![r] = Normalized(files[clock][RawFile])]
             /\ Event(r, "normalize_done")
             /\ Continue(r, "open_processed", active[r])
        ELSE /\ Propagate(r, o, "normalize")
             /\ UNCHANGED <<processed_results, trace>>
    /\ UNCHANGED <<clock, environ, disk, args, timestamp, raw_results, scored,
                   handed>>

\* Mutant of NormalizerReturns: a failure of the normalizer is swallowed and
\* main() goes on to write what it has.
NormalizerReturnsSwallow(r) ==
    /\ pc[r] = "await_normalize"
    /\ \E o \in Outcomes :
        IF o = "ok"
        THEN /\ Parseable(File(r, RawFile))
             /\ processed_results' =
                    [processed_results EXCEPT ![r] = Normalized(File(r, RawFile))]
             /\ Event(r, "normalize_done")
             /\ Continue(r, "open_processed", active[r])
        ELSE /\ pc' = [pc EXCEPT ![r] = "open_processed"]
             /\ failure' = [failure EXCEPT ![r] = [at |-> "normalize", class |-> o]]
             /\ UNCHANGED <<processed_results, trace, status, exc, log, active>>
    /\ UNCHANGED <<clock, environ, disk, args, timestamp, raw_results, scored,
                   handed>>

\* Line 155: the awaited call returns the processed results or raises.
NormalizerReturns(r) ==
    /\ pc[r] = "await_normalize"
    /\ \E o \in Outcomes :
        IF o = "ok"
        THEN /\ Parseable(File(r, RawFile))
             /\ processed_results' =
                    [processed_results EXCEPT ![r] = Normalized(File(r, RawFile))]
             /\ Event(r, "normalize_done")
             /\ Continue(r, "open_processed", active[r])
        ELSE /\ Propagate(r, o, "normalize")
             /\ UNCHANGED <<processed_results, trace>>
    /\ UNCHANGED <<clock, environ, disk, args, timestamp, raw_results, scored,
                   handed>>

\* Lines 156-157: open(processed_results_file, 'w').
OpenProcessed(r) ==
    /\ pc[r] = "open_processed"
    /\ \E o \in {"ok", "OtherError"} :
        IF o = "ok"
        THEN /\ SetFile(ResultsDir(r), ProcessedFile, PartialFile(r))
             /\ Event(r, "open_processed")
             /\ Continue(r, "dump_processed", active[r])
        ELSE /\ Propagate(r, o, "open_processed")
             /\ UNCHANGED <<files, trace>>
    /\ UNCHANGED <<clock, environ, dirs, args, locals, handed>>

\* Line 158: json.dump of processed_results, then the file is closed.
DumpProcessed(r) ==
    /\ pc[r] = "dump_processed"
    /\ \E o \in Outcomes :
        IF o = "ok"
        THEN /\ \E f \in Dumped(r, ProcessedFile, processed_results[r]) :
                    SetFile(ResultsDir(r), ProcessedFile, f)
             /\ Event(r, "processed_written")
             /\ Continue(r, "open_params", active[r] \ {"normalization"})
        ELSE /\ Propagate(r, o, "dump_processed")
             /\ UNCHANGED <<files, trace>>
    /\ UNCHANGED <<clock, environ, dirs, args, locals, handed>>

\* Mutant of OpenParams: parameters_file is joined from the wrong name
\* and the processed file is opened for writing again.
OpenParamsClobber(r) ==
    /\ pc[r] = "open_params"
    /\ \E o \in {"ok", "OtherError"} :
        IF o = "ok"
        THEN /\ SetFile(ResultsDir(r), ProcessedFile, PartialFile(r))
             /\ Event(r, "open_params")
             /\ Continue(r, "dump_params", active[r] \cup {"snapshot"})
        ELSE /\ Propagate(r, o, "open_params")
             /\ UNCHANGED <<files, trace>>
    /\ UNCHANGED <<clock, environ, dirs, args, locals, handed>>

\* Lines 160-173: test_parameters is built and open(parameters_file, 'w').
OpenParams(r) ==
    /\ pc[r] = "open_params"
    /\ \E o \in {"ok", "OtherError"} :
        IF o = "ok"
        THEN /\ SetFile(ResultsDir(r), ParametersFile, PartialFile(r))
             /\ Event(r, "open_params")
             /\ Continue(r, "dump_params", active[r] \cup {"snapshot"})
        ELSE /\ Propagate(r, o, "open_params")
             /\ UNCHANGED <<files, trace>>
    /\ UNCHANGED <<clock, environ, dirs, args, locals, handed>>

\* Mutant of DumpParams: a failure of the dump is caught and logged, and
\* main() goes on to the evaluation.
DumpParamsLogged(r) ==
    /\ pc[r] = "dump_params"
    /\ \E o \in {"ok", "OtherError"} :
        IF o = "ok"
        THEN /\ SetFile(ResultsDir(r), ParametersFile, CompleteFile(r, r))
             /\ Event(r, "params_written")
             /\ Continue(r, "evaluation", active[r] \ {"snapshot"})
        ELSE /\ pc' = [pc EXCEPT ![r] = "evaluation"]
             /\ active' = [active EXCEPT ![r] = @ \ {"snapshot"}]
             /\ failure' = [failure EXCEPT ![r] = [at |-> "dump_params", class |-> o]]
             /\ log' = [log EXCEPT ![r] = @ \cup {"Saving parameters failed"}]
             /\ UNCHANGED <<files, trace, status, exc>>
    /\ UNCHANGED <<clock, environ, dirs, args, locals, handed>>

\* Line 174: json.dump of test_parameters, then the file is closed.
DumpParams(r) ==
    /\ pc[r] = "dump_params"
    /\ \E o \in {"ok", "OtherError"} :
        IF o = "ok"
        THEN /\ \E f \in Dumped(r, ParametersFile, r) :
                    SetFile(ResultsDir(r), ParametersFile, f)
             /\ Event(r, "params_written")
             /\ Continue(r, "evaluation", active[r] \ {"snapshot"})
        ELSE /\ Propagate(r, o, "dump_params")
             /\ UNCHANGED <<files, trace>>
    /\ UNCHANGED <<clock, environ, dirs, args, locals, handed>>

\* Lines 176 and 189-192: --skip-evaluation; main() ends.
SkipEvaluation(r) ==
    /\ pc[r] = "evaluation"
    /\ args[r].skip_evaluation
    /\ Return(r)
    /\ UNCHANGED <<clock, environ, disk, args, trace, locals, handed>>

\* Mutant of InitEvaluator: the evaluation block also stands before the
\* parameters snapshot.
InitEvaluatorEarly(r) ==
    /\ pc[r] \in {"open_params", "evaluation"}
    /\ ~args[r].skip_evaluation
    /\ \E o \in Outcomes :
        IF o = "ok"
        THEN /\ Event(r, "evaluator")
             /\ Continue(r, "evaluate", active[r] \cup {"evaluation"})
        ELSE /\ RaiseInTry(r, o, "evaluator")
             /\ UNCHANGED trace
    /\ UNCHANGED <<clock, environ, disk, args, locals, handed>>

\* Lines 176-182: Evaluator(semantic_judge_model_name=..) inside the try.
InitEvaluator(r) ==
    /\ pc[r] = "evaluation"
    /\ ~args[r].skip_evaluation
    /\ \E o \in Outcomes :
        IF o = "ok"
        THEN /\ Event(r, "evaluator")
             /\ Continue(r, "evaluate", active[r] \cup {"evaluation"})
        ELSE /\ RaiseInTry(r, o, "evaluator")
             /\ UNCHANGED trace
    /\ UNCHANGED <<clock, environ, disk, args, locals, handed>>

\* Line 184: evaluator.evaluate_results(processed_results_file) is called
\* and main() is suspended.
CallEvaluate(r) ==
    /\ pc[r] = "evaluate"
    /\ Event(r, "evaluate")
    /\ handed' = [handed EXCEPT ![r] =
                     @ \cup {RunPath(ResultsDir(r), ProcessedFile)}]
    /\ Continue(r, "await_evaluate", active[r])
    /\ UNCHANGED <<clock, environ, disk, args, locals>>

\* Line 184: the awaited call returns, having scored the file, or raises.
EvaluateReturns(r) ==
    /\ pc[r] = "await_evaluate"
    /\ \E o \in Outcomes :
        IF o = "ok"
        THEN /\ Parseable(File(r, ProcessedFile))
             /\ scored' = [scored EXCEPT ![r] = File(r, ProcessedFile).data]
             /\ Event(r, "evaluate_done")
             /\ Continue(r, "save_results", active[r])
        ELSE /\ RaiseInTry(r, o, "evaluate")
             /\ UNCHANGED <<scored, trace>>
    /\ UNCHANGED <<clock, environ, disk, args, timestamp, raw_results,
                   processed_results, handed>>

\* Line 185: evaluator.save_results(results_dir) writes the evaluator's
\* results into the run directory; main() then ends.  A failed save may
\* have begun the file.
SaveResults(r) ==
    /\ pc[r] = "save_results"
    /\ \E o \in Outcomes :
        IF o = "ok"
        THEN /\ SetFile(ResultsDir(r), EvaluatorFile, CompleteFile(r, scored[r]))
             /\ trace' = [trace EXCEPT ![r] = @ \o <<"save_results", "results_saved">>]
             /\ Return(r)
        ELSE /\ \/ UNCHANGED files
                \/ SetFile(ResultsDir(r), EvaluatorFile, PartialFile(r))
             /\ Event(r, "save_results")
             /\ RaiseInTry(r, o, "save_results")
    /\ UNCHANGED <<clock, environ, dirs, args, locals, handed>>

Next ==
    \/ Tick
    \/ \E r \in Runs :
        \/ ValidateArgs(r)
        \/ MakeDirs(r)
        \/ EvalOnlyEvaluator(r)
        \/ LoadDataset(r)
        \/ InitModel(r)
        \/ InitTester(r)
        \/ CallRunTests(r)
        \/ RunTestsReturns(r)
        \/ OpenRaw(r)
        \/ DumpRaw(r)
        \/ CallNormalizer(r)
        \/ NormalizerReturns(r)
        \/ OpenProcessed(r)
        \/ DumpProcessed(r)
        \/ OpenParams(r)
        \/ DumpParams(r)
        \/ SkipEvaluation(r)
        \/ InitEvaluator(r)
        \/ CallEvaluate(r)
        \/ EvaluateReturns(r)
        \/ SaveResults(r)

\* Two invocations running concurrently, as separate processes.
SpecConc == InitConc /\ [][Next]_vars

\* A step of main() in run r.
RunStep(r) ==
    \/ ValidateArgs(r)
    \/ MakeDirs(r)
    \/ EvalOnlyEvaluator(r)
    \/ LoadDataset(r)
    \/ InitModel(r)
    \/ InitTester(r)
    \/ CallRunTests(r)
    \/ RunTestsReturns(r)
    \/ OpenRaw(r)
    \/ DumpRaw(r)
    \/ CallNormalizer(r)
    \/ NormalizerReturns(r)
    \/ OpenProcessed(r)
    \/ DumpProcessed(r)
    \/ OpenParams(r)
    \/ DumpParams(r)
    \/ SkipEvaluation(r)
    \/ InitEvaluator(r)
    \/ CallEvaluate(r)
    \/ EvaluateReturns(r)
    \/ SaveResults(r)

Spec == Init /\ [][Next]_vars

\* The interpreter executes the next statement of main(), and every call of
\* a collaborator or of the operating system returns or raises.
SpecFair == Spec /\ \A r \in Runs : WF_vars(RunStep(r))

\* ------------------------------------------------------------ vocabulary
Launched(r) == status[r] # "absent"
FullMode(r) == Launched(r) /\ ~args[r].eval_only
EvalOnlyMode(r) == Launched(r) /\ args[r].eval_only
Ended(r) == Launched(r) /\ pc[r] = "done"
Missing(x) == x = None

\* The steps and the positions of the Evaluation Stage.
EvaluationSteps == {"evaluator", "evaluate", "save_results"}
EvaluationPcs == {"evaluation", "evaluate", "await_evaluate", "save_results"}

\* The three artifacts main() writes itself.
OwnFiles == {RawFile, ProcessedFile, ParametersFile}
Artifacts(r) == [n \in OwnFiles |-> File(r, n)]

\* ----------------------------------------------------------------- claims

\* C1: in a full-mode run the stages run in the order Generation,
\* Normalization, Parameters Snapshot, Evaluation: the raw file is completely
\* written before the normalizer is called, the processed file before the
\* parameters file is opened, the parameters file before the evaluator is
\* constructed or invoked, the evaluator only without --skip-evaluation, and
\* at most one stage is in progress at any time.
C1_StagesInOrder ==
    \A r \in Runs : FullMode(r) =>
        /\ Precedes(r, "run_tests_done", "open_raw")
        /\ Precedes(r, "raw_written", "normalize")
        /\ Has(r, "normalize") => File(r, RawFile).state = "complete"
        /\ Precedes(r, "normalize_done", "open_processed")
        /\ Precedes(r, "processed_written", "open_params")
        /\ Has(r, "open_params") => File(r, ProcessedFile).state = "complete"
        /\ Precedes(r, "params_written", "evaluator")
        /\ Precedes(r, "params_written", "evaluate")
        /\ Precedes(r, "params_written", "save_results")
        /\ Has(r, "evaluator") => File(r, ParametersFile).state = "complete"
        /\ args[r].skip_evaluation => ~Has(r, "evaluator") /\ ~Has(r, "evaluate")
        /\ Cardinality(active[r]) <= 1

C1_Witness ==
    \E r \in Runs : FullMode(r) /\ Ended(r) /\ Has(r, "results_saved")

\* C2: an eval-only run never loads the dataset, never constructs a model
\* client or a tester, never runs generation or normalization, writes none
\* of its three artifacts, and hands no path to a collaborator but the
\* user-supplied processed-responses path.
C2_EvalOnlySkipsGeneration ==
    \A r \in Runs : EvalOnlyMode(r) =>
        /\ \A e \in {"open_dataset", "dataset_loaded", "model_client", "tester",
                     "run_tests", "open_raw", "normalize", "open_processed",
                     "open_params"} : ~Has(r, e)
        /\ active[r] \cap {"generation", "normalization", "snapshot"} = {}
        /\ raw_results[r] = "-" /\ processed_results[r] = "-"
        /\ timestamp[r] # 0 => \A n \in OwnFiles : File(r, n) = AbsentFile
        /\ handed[r] \subseteq {args[r].processed_responses}

C2_Witness ==
    \E r \in Runs : EvalOnlyMode(r) /\ Ended(r) /\ Has(r, "makedirs")

\* C3: an eval-only run with a processed-responses path (and no failure of
\* the evaluator or of directory creation) constructs the evaluator, invokes
\* evaluate exactly once with the user-supplied path, persists the results
\* into the run directory and returns normally.
C3_EvalOnlyEvaluates ==
    \A r \in Runs :
        (/\ EvalOnlyMode(r)
         /\ ~Falsy(args[r].processed_responses)
         /\ Ended(r)
         /\ Has(r, "makedirs")
         /\ ~(failure[r].at \in EvaluationSteps /\ failure[r].class \in FailClasses))
        => /\ status[r] = "returned"
           /\ Has(r, "evaluator")
           /\ Count(r, "evaluate") = 1
           /\ handed[r] = {args[r].processed_responses}
           /\ Has(r, "results_saved")
           /\ File(r, EvaluatorFile).state = "complete"

\* C4: in full mode a ValueError raised by the Evaluation Stage (evaluator
\* construction, scoring or persisting) is caught and logged, no exception
\* escapes main(), the run ends normally, and from the start of the
\* evaluation on the three artifacts keep their content.
C4_State ==
    \A r \in Runs :
        (FullMode(r) /\ failure[r].class = "ValueError"
                     /\ failure[r].at \in EvaluationSteps)
        => /\ pc[r] = "done"
           /\ status[r] = "returned"
           /\ exc[r] = "-"
           /\ "Evaluation failed" \in log[r]
           /\ \A n \in OwnFiles : File(r, n) = CompleteFile(r, r)

C4_Step ==
    \A r \in Runs :
        (FullMode(r) /\ pc[r] \in EvaluationPcs) => Artifacts(r)' = Artifacts(r)

C4_EvaluationFailureCaught == [](C4_State) /\ [][C4_Step]_vars

C4_Witness ==
    \E r \in Runs : /\ FullMode(r)
                    /\ failure[r] = [at |-> "evaluate", class |-> "ValueError"]
                    /\ status[r] = "returned"

\* C5: an eval-only run that got its run directory ends by returning, after
\* the Evaluation Stage succeeded or a ValueError of the evaluator was caught
\* and logged: no exception propagates to the caller.
C5_EvalOnlyNoEscape ==
    \A r \in Runs :
        (EvalOnlyMode(r) /\ Ended(r) /\ Has(r, "makedirs"))
        => /\ status[r] = "returned"
           /\ exc[r] = "-"
           /\ failure[r].class \in {"-", "ValueError"}
           /\ failure[r].class = "ValueError" => "Evaluation failed" \in log[r]

\* C6: with --skip-evaluation, in either mode, the Evaluation Stage is not
\* entered: the evaluator is neither constructed nor invoked, it writes
\* nothing into the run directory, and no failure arises in the stage.
C6_SkipSuppressesEvaluation ==
    \A r \in Runs : (Launched(r) /\ args[r].skip_evaluation) =>
        /\ ~Has(r, "evaluator") /\ ~Has(r, "evaluate") /\ ~Has(r, "save_results")
        /\ "evaluation" \notin active[r]
        /\ timestamp[r] # 0 => File(r, EvaluatorFile) = AbsentFile
        /\ failure[r].at \notin EvaluationSteps

\* C7: a command line that names neither --dataset nor
\* --processed-responses, a full-mode one without --model-type or --dataset
\* and an eval-only one without --processed-responses are rejected with a
\* usage error before the run directory is derived or created, before any
\* file is read or written and before any stage or collaborator starts.
Rejected(a) ==
    \/ Missing(a.dataset) /\ Missing(a.processed_responses)
    \/ ~a.eval_only /\ (Missing(a.model_type) \/ Missing(a.dataset))
    \/ a.eval_only /\ Missing(a.processed_responses)

C7_ValidationBeforeIO ==
    \A r \in Runs : (Launched(r) /\ Rejected(args[r])) =>
        /\ pc[r] \in {"validate", "done"}
        /\ pc[r] = "done" => status[r] = "usage_error" /\ exc[r] = "SystemExit"
        /\ trace[r] = <<>>
        /\ timestamp[r] = 0
        /\ active[r] = {}
        /\ handed[r] = {}
        /\ dirs = {}
        /\ \A d \in Dirs, n \in FileNames : files[d][n] = AbsentFile

C7_Witness ==
    \E r \in Runs : /\ Missing(args[r].dataset)
                    /\ Missing(args[r].processed_responses)
                    /\ status[r] = "usage_error"

\* C8 as stated: in full mode with model-type openai and no API key
\* resolvable from the flag or the environment, the run fails before any
\* I/O: no run directory is created and the dataset file is not read.
NoKey(r) == FullMode(r) /\ args[r].model_type = "openai"
                        /\ Falsy(args[r].openai_api_key)

C9_CredentialError ==
    \A r \in Runs : (NoKey(r) /\ Has(r, "dataset_loaded")) =>
        /\ trace[r] = <<"makedirs", "open_dataset", "dataset_loaded">>
        /\ active[r] = {}
        /\ handed[r] = {}
        /\ ResultsDir(r) \in dirs
        /\ \A n \in FileNames : File(r, n) = AbsentFile
        /\ pc[r] \in {"model", "done"}
        /\ pc[r] = "done" =>
              /\ status[r] = "returned"
              /\ exc[r] = "-"
              /\ failure[r] = NoFailure
              /\ log[r] = {"OpenAI API key is required"}

C9_Witness ==
    \E r \in Runs : /\ NoKey(r)
                    /\ Has(r, "dataset_loaded")
                    /\ status[r] = "returned"
                    /\ dirs = {ResultsDir(r)}

\* C10: a valid full-mode run creates exactly one run directory (none only
\* if os.makedirs itself fails), and once the Generation and Normalization
\* stages have both succeeded the directory holds the complete
\* raw_responses.json and processed_responses.json of this run from then on,
\* in particular when the run ends, however the parameters snapshot and the
\* evaluation turn out.
ValidFull(r) ==
    FullMode(r) /\ ~Missing(args[r].model_type) /\ ~Falsy(args[r].dataset)

C10_OneDirectoryBothFiles ==
    \A r \in Runs : ValidFull(r) =>
        /\ Count(r, "makedirs") <= 1
        /\ Cardinality(dirs) <= 1
        /\ pc[r] \notin {"validate", "makedirs"} =>
              \/ failure[r].at = "makedirs" /\ dirs = {}
              \/ Count(r, "makedirs") = 1 /\ dirs = {ResultsDir(r)}
        /\ (Has(r, "raw_written") /\ Has(r, "processed_written")) =>
              /\ ResultsDir(r) \in dirs
              /\ File(r, RawFile) = CompleteFile(r, r)
              /\ File(r, ProcessedFile) = CompleteFile(r, r)

C10_Witness ==
    \E r \in Runs : /\ ValidFull(r)
                    /\ Ended(r)
                    /\ Has(r, "processed_written")
                    /\ failure[r].at \in {"open_params", "dump_params"} \cup EvaluationSteps

\* C11: the Generation Stage is atomic.  When run_tests fails, the raw file
\* is not created, not even partially, no later stage is started, and the
\* failure propagates to the caller; the raw file exists only if run_tests
\* returned the raw results.
LaterEvents ==
    {"open_raw", "raw_written", "normalize", "normalize_done", "open_processed",
     "processed_written", "open_params", "params_written", "evaluator",
     "evaluate", "evaluate_done", "save_results", "results_saved"}

C11_GenerationAtomic ==
    \A r \in Runs : FullMode(r) =>
        /\ failure[r].at = "run_tests" =>
              /\ \A n \in FileNames : File(r, n) = AbsentFile
              /\ \A e \in LaterEvents : ~Has(r, e)
              /\ pc[r] = "done"
              /\ status[r] = "raised"
              /\ exc[r] = failure[r].class
              /\ active[r] = {}
        /\ (timestamp[r] # 0 /\ File(r, RawFile) # AbsentFile) =>
              /\ Has(r, "run_tests_done")
              /\ raw_results[r] = r
              /\ failure[r].at # "run_tests"

C11_Witness ==
    \E r \in Runs : /\ FullMode(r)
                    /\ failure[r].at = "run_tests"
                    /\ Has(r, "run_tests")
                    /\ ResultsDir(r) \in dirs

\* C12: when the Normalization Stage fails (the normalizer raises, or the
\* processed file cannot be opened or dumped), the failure propagates to the
\* caller, no complete processed file and no parameters file is written (none
\* at all when the normalizer itself raised), the evaluator is never
\* invoked, and the raw file stays on disk as it was written.
NormalizationSteps == {"normalize", "open_processed", "dump_processed"}

C12_NormalizationFailureFatal ==
    \A r \in Runs : (FullMode(r) /\ failure[r].at \in NormalizationSteps) =>
        /\ pc[r] = "done"
        /\ status[r] = "raised"
        /\ exc[r] = failure[r].class
        /\ File(r, RawFile) = CompleteFile(r, r)
        /\ File(r, ProcessedFile).state # "complete"
        /\ failure[r].at \in {"normalize", "open_processed"} =>
              File(r, ProcessedFile) = AbsentFile
        /\ File(r, ParametersFile) = AbsentFile
        /\ File(r, EvaluatorFile) = AbsentFile
        /\ \A e \in {"processed_written", "open_params", "params_written",
                     "evaluator", "evaluate", "save_results"} : ~Has(r, e)

C12_Witness ==
    \E r \in Runs : /\ FullMode(r)
                    /\ failure[r].at = "normalize"
                    /\ File(r, RawFile) = CompleteFile(r, r)

\* C13 as stated: a failure while writing test_parameters.json is logged by
\* the orchestrator and rolls back nothing.
SnapshotSteps == {"open_params", "dump_params"}

C13_SnapshotFailureLogged ==
    \A r \in Runs : (FullMode(r) /\ failure[r].at \in SnapshotSteps) =>
        /\ log[r] # {}
        /\ File(r, RawFile) = CompleteFile(r, r)
        /\ File(r, ProcessedFile) = CompleteFile(r, r)

\* C13 as amended: a failure while writing test_parameters.json is neither
\* caught nor logged by the orchestrator; it propagates to the caller and
\* ends the run before the evaluation, and it rolls back nothing: the raw
\* and the processed file stay on disk as they were written.
C13_SnapshotFailurePropagates ==
    \A r \in Runs : (FullMode(r) /\ failure[r].at \in SnapshotSteps) =>
        /\ pc[r] = "done"
        /\ status[r] = "raised"
        /\ exc[r] = failure[r].class
        /\ log[r] = {}
        /\ File(r, RawFile) = CompleteFile(r, r)
        /\ File(r, ProcessedFile) = CompleteFile(r, r)
        /\ File(r, ParametersFile).state # "complete"
        /\ \A e \in {"evaluator", "evaluate", "save_results"} : ~Has(r, e)

C13_Witness ==
    \E r \in Runs : /\ FullMode(r)
                    /\ failure[r].at = "dump_params"
                    /\ File(r, ParametersFile) = PartialFile(r)

\* C14: in both modes the run directory is created before anything else
\* happens, and a failure to create it is fatal: then the dataset is not
\* loaded, no model client or evaluator is constructed, no stage runs and
\* nothing is written.  Every file the run writes lies in its one run
\* directory.
C14_DirectoryFirst ==
    \A r \in Runs : Launched(r) =>
        /\ trace[r] # <<>> => trace[r][1] = "makedirs" /\ ResultsDir(r) \in dirs
        /\ failure[r].at \in {"evaluator", "load_dataset"} => Has(r, "makedirs")
        /\ failure[r].at = "makedirs" =>
              /\ trace[r] = <<>>
              /\ pc[r] = "done"
              /\ status[r] = "raised"
              /\ active[r] = {}
              /\ handed[r] = {}
              /\ dirs = {}
        /\ \A d \in Dirs, n \in FileNames :
              files[d][n] # AbsentFile =>
                  /\ d = ResultsDir(r)
                  /\ d \in dirs
                  /\ files[d][n].writer = r
        /\ \A p \in handed[r] : p[1] = ResultsDir(r)

C14_Witness ==
    \E r \in Runs : Launched(r) /\ failure[r].at = "makedirs"

\* C16: persistence is forward-only.  On every path of an invocation each of
\* the three artifacts is opened and written at most once, a file that has
\* been written completely never changes again, a file that has been opened
\* is only ever completed by its writer, and no file is ever removed.
C16_State ==
    \A r \in Runs : Launched(r) =>
        \A e \in {"open_raw", "raw_written", "open_processed",
                  "processed_written", "open_params", "params_written"} :
            Count(r, e) <= 1

C16_Step ==
    \A d \in Dirs, n \in OwnFiles :
        /\ files[d][n].state = "complete" => files'[d][n] = files[d][n]
        /\ files[d][n].state = "partial" =>
              \/ files'[d][n] = files[d][n]
              \/ /\ files'[d][n].state = "complete"
                 /\ files'[d][n].writer = files[d][n].writer
        /\ d \in dirs => d \in dirs'

C16_ForwardOnly == [](C16_State) /\ [][C16_Step]_vars

C16_Witness ==
    \E r \in Runs : /\ Ended(r)
                    /\ status[r] = "raised"
                    /\ failure[r].at \in EvaluationSteps
                    /\ \A n \in OwnFiles : File(r, n) = CompleteFile(r, r)

\* C17: the try block around the full-mode evaluation is the only catch
\* boundary and it catches ValueError only.  A run that met a failure
\* returns normally exactly when the failure is a ValueError of the full-mode
\* Evaluation Stage; every other failure (another class from the evaluator,
\* any class from dataset loading, generation, normalization or the
\* parameters snapshot) leaves main() with its class, unlogged.  The
\* artifacts written before the failure stay on disk.
WrittenEvent(n) ==
    IF n = RawFile THEN "raw_written"
    ELSE IF n = ProcessedFile THEN "processed_written"
    ELSE "params_written"

C17_OnlyEvaluationCatches ==
    \A r \in Runs : (Launched(r) /\ failure[r].class \in FailClasses) =>
        /\ pc[r] = "done"
        /\ IF FullMode(r) /\ failure[r].at \in EvaluationSteps
                          /\ failure[r].class = "ValueError"
           THEN status[r] = "returned" /\ exc[r] = "-"
                                       /\ log[r] = {"Evaluation failed"}
           ELSE status[r] = "raised" /\ exc[r] = failure[r].class
                                     /\ log[r] = {}
        /\ timestamp[r] # 0 =>
              \A n \in OwnFiles :
                  Has(r, WrittenEvent(n)) => File(r, n) = CompleteFile(r, r)

C17_Witness ==
    \E r \in Runs : /\ FullMode(r)
                    /\ failure[r] = [at |-> "evaluate", class |-> "OtherError"]
                    /\ status[r] = "raised"
                    /\ \A n \in OwnFiles : File(r, n) = CompleteFile(r, r)

\* C19: in a full-mode run that starts with a fresh run directory the
\* artifacts exist as a prefix of the pipeline: the processed file only if
\* the raw file, the parameters file only if the processed file, and the
\* evaluator is constructed, invoked or has saved results only if the
\* parameters file exists.
Exists(r, n) == File(r, n).state # "absent"

C19_PrefixClosed ==
    \A r \in Runs : (FullMode(r) /\ timestamp[r] # 0) =>
        /\ Exists(r, ProcessedFile) => Exists(r, RawFile)
        /\ Exists(r, ParametersFile) => Exists(r, ProcessedFile)
        /\ (\/ Has(r, "evaluator") \/ Has(r, "evaluate") \/ Has(r, "save_results")
            \/ failure[r].at \in EvaluationSteps
            \/ "evaluation" \in active[r]
            \/ Exists(r, EvaluatorFile))
           => Exists(r, ParametersFile)

C19_Witness ==
    \E r \in Runs : /\ FullMode(r)
                    /\ Has(r, "evaluate")
                    /\ Exists(r, ParametersFile)
                    /\ ~Exists(r, EvaluatorFile)

\* C18: main() has no retry.  When every call returns or raises, every
\* invocation ends (by return or by an escaping exception) having passed
\* every step at most once; a run that has ended or failed starts nothing
\* more; and a run suspended in an awaited call moves on only when that call
\* returns or raises, so a call that never returns keeps the run from ever
\* ending or starting a later stage.
AllEvents ==
    {"makedirs", "open_dataset", "dataset_loaded", "model_client", "tester",
     "run_tests", "run_tests_done"} \cup LaterEvents

Awaited ==
    [await_run_tests |-> [call |-> "run_tests", done |-> "run_tests_done"],
     await_normalize |-> [call |-> "normalize", done |-> "normalize_done"],
     await_evaluate  |-> [call |-> "evaluate", done |-> "evaluate_done"]]

C18_State ==
    \A r \in Runs : Launched(r) =>
        /\ \A e \in AllEvents : Count(r, e) <= 1
        /\ failure[r] # NoFailure => pc[r] = "done" /\ active[r] = {}

C18_Step ==
    \A r \in Runs :
        /\ Ended(r) =>
              /\ pc'[r] = "done"
              /\ trace'[r] = trace[r]
              /\ status'[r] = status[r]
              /\ active'[r] = {}
              /\ handed'[r] = handed[r]
              /\ \A d \in Dirs, n \in FileNames :
                    files'[d][n] # files[d][n] => files'[d][n].writer # r
        /\ \A a \in DOMAIN Awaited :
              (pc[r] = a /\ pc'[r] # a) =>
                  \/ trace'[r] = Append(trace[r], Awaited[a].done)
                  \/ failure'[r].at = Awaited[a].call /\ pc'[r] = "done"

C18_Terminates ==
    /\ [](C18_State)
    /\ [][C18_Step]_vars
    /\ \A r \in Runs : <>(pc[r] = "done")

C18_Witness ==
    \E r \in Runs : /\ Ended(r)
                    /\ failure[r].at = "normalize"
                    /\ Count(r, "run_tests") = 1
                    /\ Count(r, "normalize") = 1

\* C15: the run directory is a function of the second in which the run
\* derives its timestamp, and creating it is idempotent: two invocations that
\* derive it in the same second get the same directory, and for a run about
\* to create a directory that already exists the creation can succeed and
\* lead on to the mode dispatch.
C15_SameSecondSameDirectory ==
    \A r \in Runs :
        /\ Has(r, "makedirs") => ResultsDir(r) \in dirs /\ ResultsDir(r) <= clock
        /\ \A q \in Runs :
              (Has(r, "makedirs") /\ Has(q, "makedirs") /\ clock = 1) =>
                  /\ ResultsDir(r) = ResultsDir(q)
                  /\ dirs = {ResultsDir(r)}
        /\ (pc[r] = "makedirs" /\ clock \in dirs) =>
              ENABLED (MakeDirs(r) /\ pc'[r] = "dispatch")

C15_Witness ==
    /\ timestamp["A"] = timestamp["B"]
    /\ Cardinality(dirs) = 1
    /\ \A r \in Runs : FullMode(r) /\ Has(r, "makedirs") /\ Has(r, "raw_written")

\* C20 as stated: also with another invocation running in the same run
\* directory, what a full-mode run gets from the normalizer stems from the
\* raw results this run generated, and what its evaluator scores stems from
\* this run as well.
C20_OwnDataOnly ==
    \A r \in Runs : FullMode(r) =>
        /\ processed_results[r] \in {"-", r}
        /\ scored[r] \in {"-", r}

\* C20 as amended: as long as no other invocation has derived the same run
\* directory, a full-mode run normalizes the raw results it generated
\* itself, writes them to its processed file, and its evaluator scores that
\* data.
Exclusive(r) ==
    /\ timestamp[r] # 0
    /\ \A q \in Runs \ {r} : timestamp[q] # timestamp[r]

C20_OwnDataWhenExclusive ==
    \A r \in Runs : (FullMode(r) /\ Exclusive(r)) =>
        /\ processed_results[r] \in {"-", r}
        /\ scored[r] \in {"-", r}
        /\ Has(r, "raw_written") => File(r, RawFile) = CompleteFile(r, r)
        /\ Has(r, "processed_written") =>
              File(r, ProcessedFile) = CompleteFile(r, r)
        /\ Has(r, "results_saved") => File(r, EvaluatorFile) = CompleteFile(r, r)

C20_Witness ==
    /\ \A r \in Runs : FullMode(r) /\ Exclusive(r) /\ scored[r] = r
    /\ timestamp["A"] # timestamp["B"]

====
